---- MODULE Spec2Model ----
(***************************************************************************)
(* The list commands (pods, persistentvolumes) and the containers command  *)
(* of click, with the navigation state they read and write.                *)
(*                                                                         *)
(* Text is a sequence of one-character strings, so that substring match    *)
(* and lexicographic order are computed and not assumed.  An optional      *)
(* value is a sequence of length 0 (None) or 1 (Some).                     *)
(***************************************************************************)
EXTENDS Integers, Sequences, FiniteSets, TLC

VARIABLES
    namespace,    \* env.namespace: Option<String>
    selection,    \* env.current_selection(): None / Single(obj) / Many(objs)
    alive,        \* FALSE once a panic has unwound the process
    pc,           \* "ready": the shell waits for a command; "done": one has run
    cmd,          \* the command that ran last, with its arguments
    result,       \* its result: "Ok" or the error returned to the shell
    request,      \* the list request handed to the fetch collaborator
    fetched,      \* the records the fetch returned (by identifier, see Rec)
    table,        \* what the renderer was given: None or Some([headers, rows])
    emitted,      \* the KObjs handed to the environment, in emitted order
    applied,      \* the objects the operation was applied to, in order
    errors,       \* the per-member failures reported
    kin,          \* the record given to pod_to_kobj / pv_to_kobj
    kout          \* the KObj it returned

vars == <<namespace, selection, alive, pc, cmd, result, request, fetched,
          table, emitted, applied, errors, kin, kout>>

None == <<>>
Some(x) == <<x>>
IsSome(o) == Len(o) = 1
Unwrap(o) == o[1]

\* ------------------------------------------------------------------ bounds
MaxRecords == 3

\* -------------------------------------------------------------------- text
Ascii ==
    <<" ", ",", "-", "/", "0", "1", "2", "3", "4", "5", "6", "7", "8", "9",
      "<", ">", "A", "B", "C", "G", "K", "O", "P", "R", "T", "U", "W", "X",
      "a", "b", "c", "d", "e", "g", "i", "k", "l", "m", "n", "o", "p", "r",
      "t", "u", "v", "w", "x">>

Code(c) == CHOOSE i \in 1..Len(Ascii) : Ascii[i] = c

RECURSIVE StrLess(_, _)
StrLess(a, b) ==
    IF b = <<>> THEN FALSE
    ELSE IF a = <<>> THEN TRUE
    ELSE IF a[1] = b[1] THEN StrLess(Tail(a), Tail(b))
    ELSE Code(a[1]) < Code(b[1])

Contains(s, p) == \E i \in 0..(Len(s) - Len(p)) : SubSeq(s, i + 1, i + Len(p)) = p

DigitChars == <<"0", "1", "2", "3", "4", "5", "6", "7", "8", "9">>

RECURSIVE Digits(_)
Digits(n) ==
    IF n < 10 THEN <<DigitChars[n + 1]>>
    ELSE Digits(n \div 10) \o <<DigitChars[(n % 10) + 1]>>

Word(s) ==
    CASE s = "Unknown" -> <<"U", "n", "k", "n", "o", "w", "n">>
      [] s = "Terminating" -> <<"T", "e", "r", "m", "i", "n", "a", "t", "i", "n", "g">>
      [] s = "ContainerCreating" ->
            <<"C", "o", "n", "t", "a", "i", "n", "e", "r",
              "C", "r", "e", "a", "t", "i", "n", "g">>
      [] s = "Running" -> <<"R", "u", "n", "n", "i", "n", "g">>
      [] s = "Pending" -> <<"P", "e", "n", "d", "i", "n", "g">>
      [] s = "Active" -> <<"A", "c", "t", "i", "v", "e">>
      [] s = "Succeeded" -> <<"S", "u", "c", "c", "e", "e", "d", "e", "d">>
      [] s = "Failed" -> <<"F", "a", "i", "l", "e", "d">>
      [] s = "Terminated" -> <<"T", "e", "r", "m", "i", "n", "a", "t", "e", "d">>
      [] s = "Evicted" -> <<"E", "v", "i", "c", "t", "e", "d">>
      [] s = "Available" -> <<"A", "v", "a", "i", "l", "a", "b", "l", "e">>
      [] s = "" -> <<>>

UnknownName == <<"<", "U", "n", "k", "n", "o", "w", "n", ">">>

\* ----------------------------------------------------------------- records
Now == 20

Running == [running |-> TRUE, terminated |-> FALSE, waiting |-> FALSE]
Waiting == [running |-> FALSE, terminated |-> FALSE, waiting |-> TRUE]

PodA ==
    [kind |-> "Pod", name |-> Some(<<"a", "b">>), namespace |-> Some("ns1"),
     creation |-> 10, deletion |-> FALSE,
     spec |-> Some([containers |-> <<"c1", "c2">>, node_name |-> Some(<<"n", "1">>)]),
     status |-> Some([phase |-> Some("Running"), pod_ip |-> Some(<<"1", "0">>),
                      nominated_node_name |-> None,
                      cstats |-> Some(<<[ready |-> TRUE, restart_count |-> 1,
                                         state |-> Some(Running)],
                                        [ready |-> FALSE, restart_count |-> 0,
                                         state |-> Some(Running)]>>)])]

PodB ==
    [kind |-> "Pod", name |-> Some(<<"a", "b">>), namespace |-> None,
     creation |-> 11, deletion |-> FALSE,
     spec |-> None,
     status |-> Some([phase |-> Some("Pending"), pod_ip |-> None,
                      nominated_node_name |-> Some(<<"n", "2">>),
                      cstats |-> Some(<<[ready |-> FALSE, restart_count |-> 0,
                                         state |-> Some(Waiting)]>>)])]

PodC ==
    [kind |-> "Pod", name |-> None, namespace |-> Some("ns1"),
     creation |-> 15, deletion |-> TRUE,
     spec |-> Some([containers |-> <<"c1">>, node_name |-> None]),
     status |-> None]

PodRecords == {"PodA", "PodB", "PodC"}

VolA ==
    [kind |-> "PersistentVolume", name |-> Some(<<"p", "v">>), namespace |-> None,
     creation |-> 11, deletion |-> FALSE,
     spec |-> Some([capacity |-> Some(<<"1", "G">>),
                    access_modes |-> <<"ReadWriteOnce", "ReadOnlyMany", "Other">>,
                    persistent_volume_reclaim_policy |-> Some(<<"R", "e", "t", "a", "i", "n">>),
                    claim_ref |-> Some([namespace |-> None, name |-> Some(<<"c">>)]),
                    storage_class_name |-> None,
                    volume_mode |-> Some(<<"B", "l", "o", "c", "k">>)]),
     status |-> Some([phase |-> Some("Available"), reason |-> None])]

VolB ==
    [kind |-> "PersistentVolume", name |-> None, namespace |-> None,
     creation |-> 10, deletion |-> FALSE,
     spec |-> None,
     status |-> None]

VolumeRecords == {"VolA", "VolB"}

\* the record a fetch result names
Rec(id) ==
    CASE id = "PodA" -> PodA
      [] id = "PodB" -> PodB
      [] id = "PodC" -> PodC
      [] id = "VolA" -> VolA
      [] id = "VolB" -> VolB

SeqsUpTo(S, n) == UNION {[1..k -> S] : k \in 0..n}

\* --------------------------------------------------------------- to KObj
pod_to_kobj_keeps_absent_name(pod) ==
    [name |-> IF IsSome(pod.name) THEN Unwrap(pod.name) ELSE <<>>,
     namespace |-> pod.namespace,
     typ |-> "Pod",
     containers |-> IF IsSome(pod.spec) THEN Unwrap(pod.spec).containers ELSE <<>>]

pod_to_kobj(pod) ==
    [name |-> IF IsSome(pod.name) THEN Unwrap(pod.name) ELSE UnknownName,
     namespace |-> pod.namespace,
     typ |-> "Pod",
     containers |-> IF IsSome(pod.spec) THEN Unwrap(pod.spec).containers ELSE <<>>]

pv_to_kobj_keeps_absent_name(volume) ==
    [name |-> IF IsSome(volume.name) THEN Unwrap(volume.name) ELSE <<>>,
     namespace |-> volume.namespace,
     typ |-> "PersistentVolume",
     containers |-> <<>>]

pv_to_kobj(volume) ==
    [name |-> IF IsSome(volume.name) THEN Unwrap(volume.name) ELSE UnknownName,
     namespace |-> volume.namespace,
     typ |-> "PersistentVolume",
     containers |-> <<>>]

\* ----------------------------------------------------------------- columns
pods_COL_MAP_flags_swapped ==
    <<<<"age", "Name">>, <<"ready", "Ready">>, <<"status", "Status">>,
      <<"restarts", "Restarts">>, <<"name", "Age">>>>

pods_COL_MAP ==
    <<<<"name", "Name">>, <<"ready", "Ready">>, <<"status", "Status">>,
      <<"restarts", "Restarts">>, <<"age", "Age">>>>

pods_EXTRA_COL_MAP ==
    <<<<"ip", "IP">>, <<"labels", "Labels">>, <<"lastrestart", "Last Restart">>,
      <<"namespace", "Namespace">>, <<"node", "Node">>,
      <<"nominatednode", "Nominated Node">>,
      <<"readinessgates", "Readiness Gates">>>>

POD_EXTRACTORS_ip_misspelt ==
    {"Ip", "Last Restart", "Node", "Nominated Node", "Readiness Gates", "Ready",
     "Restarts", "Status"}

POD_EXTRACTORS ==
    {"IP", "Last Restart", "Node", "Nominated Node", "Readiness Gates", "Ready",
     "Restarts", "Status"}

volumes_COL_MAP_age_misspelt ==
    <<<<"name", "Name">>, <<"aeg", "Age">>, <<"capacity", "Capacity">>,
      <<"accessmodes", "Access Modes">>, <<"replacepolicy", "Reclaim Policy">>,
      <<"status", "Status">>, <<"cliam", "Claim">>,
      <<"storageclass", "Storage Class">>, <<"reason", "Reason">>>>

volumes_COL_MAP ==
    <<<<"name", "Name">>, <<"age", "Age">>, <<"capacity", "Capacity">>,
      <<"accessmodes", "Access Modes">>, <<"replacepolicy", "Reclaim Policy">>,
      <<"status", "Status">>, <<"cliam", "Claim">>,
      <<"storageclass", "Storage Class">>, <<"reason", "Reason">>>>

volumes_EXTRA_COL_MAP == <<<<"labels", "Labels">>, <<"volumemode", "Volume Mode">>>>

PV_EXTRACTORS ==
    {"Capacity", "Access Modes", "Reclaim Policy", "Status", "Claim",
     "Storage Class", "Reason", "Volume Mode"}

\* the characters of the flags the column tables hold
FlagText(flag) ==
    CASE flag = "name" -> <<"n", "a", "m", "e">>
      [] flag = "ready" -> <<"r", "e", "a", "d", "y">>
      [] flag = "status" -> <<"s", "t", "a", "t", "u", "s">>
      [] flag = "restarts" -> <<"r", "e", "s", "t", "a", "r", "t", "s">>
      [] flag = "age" -> <<"a", "g", "e">>
      [] flag = "ip" -> <<"i", "p">>
      [] flag = "labels" -> <<"l", "a", "b", "e", "l", "s">>
      [] flag = "lastrestart" ->
            <<"l", "a", "s", "t", "r", "e", "s", "t", "a", "r", "t">>
      [] flag = "namespace" -> <<"n", "a", "m", "e", "s", "p", "a", "c", "e">>
      [] flag = "node" -> <<"n", "o", "d", "e">>
      [] flag = "nominatednode" ->
            <<"n", "o", "m", "i", "n", "a", "t", "e", "d", "n", "o", "d", "e">>
      [] flag = "readinessgates" ->
            <<"r", "e", "a", "d", "i", "n", "e", "s", "s", "g", "a", "t", "e", "s">>
      [] flag = "capacity" -> <<"c", "a", "p", "a", "c", "i", "t", "y">>
      [] flag = "accessmodes" ->
            <<"a", "c", "c", "e", "s", "s", "m", "o", "d", "e", "s">>
      [] flag = "replacepolicy" ->
            <<"r", "e", "p", "l", "a", "c", "e", "p", "o", "l", "i", "c", "y">>
      [] flag = "cliam" -> <<"c", "l", "i", "a", "m">>
      [] flag = "storageclass" ->
            <<"s", "t", "o", "r", "a", "g", "e", "c", "l", "a", "s", "s">>
      [] flag = "reason" -> <<"r", "e", "a", "s", "o", "n">>
      [] flag = "volumemode" -> <<"v", "o", "l", "u", "m", "e", "m", "o", "d", "e">>

\* extract_first!: the flags of a column map, in order
extract_first(map) == [i \in 1..Len(map) |-> map[i][1]]

Range(s) == {s[i] : i \in 1..Len(s)}

COL_MAP(kind) == IF kind = "pods" THEN pods_COL_MAP ELSE volumes_COL_MAP
EXTRA_COL_MAP(kind) == IF kind = "pods" THEN pods_EXTRA_COL_MAP ELSE volumes_EXTRA_COL_MAP
EXTRACTORS(kind) == IF kind = "pods" THEN POD_EXTRACTORS ELSE PV_EXTRACTORS
COL_FLAGS(kind) == extract_first(COL_MAP(kind))
EXTRA_COL_FLAGS(kind) == extract_first(EXTRA_COL_MAP(kind))

\* ------------------------------------------------------------------- cells
Plain(text) == [text |-> text, fg |-> None]
Placeholder == Plain(<<>>)

has_waiting_only_when_flagged(pod) ==
    IF IsSome(pod.status) /\ IsSome(Unwrap(pod.status).cstats)
    THEN \E i \in 1..Len(Unwrap(Unwrap(pod.status).cstats)) :
            LET cs == Unwrap(Unwrap(pod.status).cstats)[i] IN
            IF IsSome(cs.state) THEN Unwrap(cs.state).waiting ELSE FALSE
    ELSE FALSE

has_waiting(pod) ==
    IF IsSome(pod.status) /\ IsSome(Unwrap(pod.status).cstats)
    THEN \E i \in 1..Len(Unwrap(Unwrap(pod.status).cstats)) :
            LET cs == Unwrap(Unwrap(pod.status).cstats)[i] IN
            IF IsSome(cs.state)
            THEN Unwrap(cs.state).waiting
                 \/ (~Unwrap(cs.state).running /\ ~Unwrap(cs.state).terminated)
            ELSE FALSE
    ELSE FALSE

phase_style_color(phase) ==
    CASE phase \in {"Running", "Active"} -> "Success"
      [] phase \in {"Terminated", "Terminating"} -> "Danger"
      [] phase \in {"Pending", "ContainerCreating"} -> "Warn"
      [] phase = "Succeeded" -> "Info"
      [] OTHER -> "Danger"

pod_status(pod) ==
    LET status == IF pod.deletion THEN "Terminating"
                  ELSE IF has_waiting(pod) THEN "ContainerCreating"
                  ELSE IF IsSome(pod.status) /\ IsSome(Unwrap(pod.status).phase)
                       THEN Unwrap(Unwrap(pod.status).phase)
                  ELSE "Unknown"
    IN  Some([text |-> Word(status), fg |-> Some(phase_style_color(status))])

RECURSIVE CountReady(_)
CountReady(cstats) ==
    IF cstats = <<>> THEN 0
    ELSE (IF cstats[1].ready THEN 1 ELSE 0) + CountReady(Tail(cstats))

ready_counts(pod) ==
    IF IsSome(pod.status)
    THEN LET cs == IF IsSome(Unwrap(pod.status).cstats)
                   THEN Unwrap(Unwrap(pod.status).cstats) ELSE <<>>
         IN  Some(Plain(Digits(CountReady(cs)) \o <<"/">> \o Digits(Len(cs))))
    ELSE None

RECURSIVE SumRestarts(_)
SumRestarts(cstats) ==
    IF cstats = <<>> THEN 0 ELSE cstats[1].restart_count + SumRestarts(Tail(cstats))

restart_count(pod) ==
    IF IsSome(pod.status) /\ IsSome(Unwrap(pod.status).cstats)
    THEN Some(Plain(Digits(SumRestarts(Unwrap(Unwrap(pod.status).cstats)))))
    ELSE None

pod_ip(pod) ==
    IF IsSome(pod.status) /\ IsSome(Unwrap(pod.status).pod_ip)
    THEN Some(Plain(Unwrap(Unwrap(pod.status).pod_ip)))
    ELSE None

pod_node(pod) ==
    IF IsSome(pod.spec) /\ IsSome(Unwrap(pod.spec).node_name)
    THEN Some(Plain(Unwrap(Unwrap(pod.spec).node_name)))
    ELSE None

pod_nominated_node(pod) ==
    IF IsSome(pod.status)
    THEN IF IsSome(Unwrap(pod.status).nominated_node_name)
         THEN Some(Plain(Unwrap(Unwrap(pod.status).nominated_node_name)))
         ELSE Some(Plain(<<"<", "n", "o", "n", "e", ">">>))
    ELSE None

ModeText(mode) ==
    CASE mode = "ReadWriteOnce" -> <<"R", "W", "O">>
      [] mode = "ReadOnlyMany" -> <<"R", "O", "X">>
      [] mode = "ReadWriteMany" -> <<"R", "W", "X">>
      [] mode = "ReadWriteOncePod" -> <<"R", "W", "O", "P">>
      [] OTHER -> <<"U", "n", "k", "n", "o", "w", "n">>

RECURSIVE JoinModes(_)
JoinModes(modes) ==
    IF modes = <<>> THEN <<>>
    ELSE IF Len(modes) = 1 THEN ModeText(modes[1])
    ELSE ModeText(modes[1]) \o <<",", " ">> \o JoinModes(Tail(modes))

volume_capacity(volume) ==
    IF IsSome(volume.spec) /\ IsSome(Unwrap(volume.spec).capacity)
    THEN Some(Plain(Unwrap(Unwrap(volume.spec).capacity)))
    ELSE None

volume_access_modes(volume) ==
    IF IsSome(volume.spec)
    THEN Some(Plain(JoinModes(Unwrap(volume.spec).access_modes)))
    ELSE None

volume_reclaim_policy(volume) ==
    IF IsSome(volume.spec) /\ IsSome(Unwrap(volume.spec).persistent_volume_reclaim_policy)
    THEN Some(Plain(Unwrap(Unwrap(volume.spec).persistent_volume_reclaim_policy)))
    ELSE None

volume_mode(volume) ==
    IF IsSome(volume.spec) /\ IsSome(Unwrap(volume.spec).volume_mode)
    THEN Some(Plain(Unwrap(Unwrap(volume.spec).volume_mode)))
    ELSE None

volume_status(volume) ==
    IF IsSome(volume.status) /\ IsSome(Unwrap(volume.status).phase)
    THEN Some(Plain(Word(Unwrap(Unwrap(volume.status).phase))))
    ELSE None

volume_claim(volume) ==
    IF IsSome(volume.spec)
    THEN LET ref == Unwrap(volume.spec).claim_ref IN
         IF IsSome(ref)
         THEN Some(Plain((IF IsSome(Unwrap(ref).namespace)
                          THEN Unwrap(Unwrap(ref).namespace) ELSE <<>>)
                         \o <<"/">>
                         \o (IF IsSome(Unwrap(ref).name)
                             THEN Unwrap(Unwrap(ref).name) ELSE <<>>)))
         ELSE Some(Plain(<<>>))
    ELSE None

volume_storage_class(volume) ==
    IF IsSome(volume.spec) /\ IsSome(Unwrap(volume.spec).storage_class_name)
    THEN Some(Plain(Unwrap(Unwrap(volume.spec).storage_class_name)))
    ELSE None

volume_reason(volume) ==
    IF IsSome(volume.status)
    THEN IF IsSome(Unwrap(volume.status).reason)
         THEN Some(Plain(Unwrap(Unwrap(volume.status).reason)))
         ELSE Some(Plain(<<>>))
    ELSE None

\* ----------------------------------------------------------- list pipeline
Patterns == {<<"a">>, <<"n">>}
ShowSets == {{}, {"labels"}, {"bogus"}}
SortFlags == {"name", "age", "bogus"}

NodeArgs == {None, Some(<<"n", "2">>)}

PodsArgs ==
    [regex : {None} \cup {Some(p) : p \in Patterns},
     sort : {None} \cup {Some(f) : f \in SortFlags},
     reverse : BOOLEAN,
     show : ShowSets,
     node : NodeArgs,
     label : {None}]

VolumesArgs ==
    [regex : {None} \cup {Some(p) : p \in Patterns},
     sort : {None} \cup {Some(f) : f \in SortFlags},
     reverse : BOOLEAN,
     show : ShowSets,
     node : {None},
     label : {None}]

show_arg_given_base_flags(kind) == Range(COL_FLAGS(kind))

\* show_arg(EXTRA_COL_FLAGS, true): the values --show accepts
show_arg(kind) == Range(EXTRA_COL_FLAGS(kind))

\* sort_arg(COL_FLAGS, Some(EXTRA_COL_FLAGS)): the values --sort accepts
sort_arg(kind) == Range(COL_FLAGS(kind)) \cup Range(EXTRA_COL_FLAGS(kind))

ValidArgs(kind, a) ==
    /\ a.show \subseteq show_arg(kind)
    /\ IsSome(a.sort) => Unwrap(a.sort) \in sort_arg(kind)

DisplayName(kind, flag) ==
    LET all == COL_MAP(kind) \o EXTRA_COL_MAP(kind)
        i == CHOOSE j \in 1..Len(all) : all[j][1] = flag
    IN  all[i][2]

\* step 1: base columns, then the extra columns shown or sorted on
EffectiveColumns(kind, a) ==
    LET wanted(pair) == pair[1] \in a.show \/ a.sort = Some(pair[1])
        extra == SelectSeq(EXTRA_COL_MAP(kind), wanted)
    IN  [i \in 1..Len(COL_MAP(kind)) |-> COL_MAP(kind)[i][2]]
        \o [i \in 1..Len(extra) |-> extra[i][2]]

AgeText(rec) == Digits(Now - rec.creation) \o <<"m">>

Extract(kind, col, rec) ==
    IF kind = "pods"
    THEN CASE col = "IP" -> pod_ip(rec)
           [] col = "Node" -> pod_node(rec)
           [] col = "Nominated Node" -> pod_nominated_node(rec)
           [] col = "Ready" -> ready_counts(rec)
           [] col = "Restarts" -> restart_count(rec)
           [] col = "Status" -> pod_status(rec)
    ELSE CASE col = "Capacity" -> volume_capacity(rec)
           [] col = "Access Modes" -> volume_access_modes(rec)
           [] col = "Reclaim Policy" -> volume_reclaim_policy(rec)
           [] col = "Status" -> volume_status(rec)
           [] col = "Claim" -> volume_claim(rec)
           [] col = "Storage Class" -> volume_storage_class(rec)
           [] col = "Reason" -> volume_reason(rec)
           [] col = "Volume Mode" -> volume_mode(rec)

\* step 2: one cell of one row
CellOf(kind, col, rec, kobj) ==
    IF col = "Name" THEN Plain(kobj.name)
    ELSE IF col = "Age" THEN Plain(AgeText(rec))
    ELSE IF col \in EXTRACTORS(kind)
         THEN LET c == Extract(kind, col, rec) IN
              IF IsSome(c) THEN Unwrap(c) ELSE Placeholder
    ELSE Placeholder

get_kobj(kind, rec) == IF kind = "pods" THEN pod_to_kobj(rec) ELSE pv_to_kobj(rec)

Project(kind, cols, rec) ==
    LET kobj == get_kobj(kind, rec) IN
    [rec |-> rec, kobj |-> kobj,
     row |-> [i \in 1..Len(cols) |-> CellOf(kind, cols[i], rec, kobj)]]

ColIndex(cols, col) == CHOOSE i \in 1..Len(cols) : cols[i] = col

\* step 3: the name filter
FilterItems(items, regex, cols) ==
    LET keep(it) == Contains(it.row[ColIndex(cols, "Name")].text, Unwrap(regex))
    IN  IF IsSome(regex) THEN SelectSeq(items, keep) ELSE items

\* 4.4: the well-known semantic sorts map to Pre, every other column to Post
resolve(kind, flag) ==
    IF flag = "age" THEN [tag |-> "Pre", col |-> "Age"]
    ELSE [tag |-> "Post", col |-> DisplayName(kind, flag)]

\* the age comparator: the younger record (later creation timestamp) first
age_cmp(a, b) == a.rec.creation > b.rec.creation

Before(sf, cols, a, b) ==
    IF sf.tag = "Pre" THEN age_cmp(a, b)
    ELSE StrLess(a.row[ColIndex(cols, sf.col)].text, b.row[ColIndex(cols, sf.col)].text)

RECURSIVE InsertStable(_, _, _, _)
InsertStable(x, sorted, sf, cols) ==
    IF sorted = <<>> THEN <<x>>
    ELSE IF Before(sf, cols, x, sorted[1]) THEN <<x>> \o sorted
    ELSE <<sorted[1]>> \o InsertStable(x, Tail(sorted), sf, cols)

RECURSIVE SortFrom(_, _, _, _)
SortFrom(items, sorted, sf, cols) ==
    IF items = <<>> THEN sorted
    ELSE SortFrom(Tail(items), InsertStable(items[1], sorted, sf, cols), sf, cols)

\* step 4: a stable sort; no sort spec leaves the order alone
SortItems(kind, items, sort, cols) ==
    IF IsSome(sort) THEN SortFrom(items, <<>>, resolve(kind, Unwrap(sort)), cols)
    ELSE items

Reverse(s) == [i \in 1..Len(s) |-> s[Len(s) + 1 - i]]

\* step 5
ReverseItems(items, reverse) == IF reverse THEN Reverse(items) ELSE items

Pipeline(kind, a, records) ==
    LET cols == EffectiveColumns(kind, a)
        projected == [i \in 1..Len(records) |-> Project(kind, cols, Rec(records[i]))]
    IN  ReverseItems(SortItems(kind, FilterItems(projected, a.regex, cols), a.sort, cols),
                     a.reverse)

Records(kind) == IF kind = "pods" THEN PodRecords ELSE VolumeRecords

ListArgs(kind) == IF kind = "pods" THEN PodsArgs ELSE VolumesArgs

\* The pipeline's result for every accepted argument bag and fetch result (the
\* node argument restricts the fetch and is not read by the pipeline).  TLC
\* leaves a function constructor unevaluated until the function is compared;
\* comparing it here makes TLC tabulate it once instead of at every step.
PipelineTable ==
    LET t == [kind \in {"pods", "persistentvolumes"} |->
                [a \in {x \in ListArgs(kind) : ValidArgs(kind, x) /\ x.node = None} |->
                   [records \in SeqsUpTo(Records(kind), MaxRecords) |->
                      Pipeline(kind, a, records)]]]
    IN  IF t = t THEN t ELSE t

KObjsOf(items) == [i \in 1..Len(items) |-> items[i].kobj]
RowsOf(items) == [i \in 1..Len(items) |-> items[i].row]

\* -------------------------------------------------------------- selection
NoSelection == [type |-> "None", objs |-> <<>>]
Single(obj) == [type |-> "Single", objs |-> <<obj>>]
Many(objs) == [type |-> "Many", objs |-> objs]

NodeObj == [name |-> <<"n", "1">>, namespace |-> None, typ |-> "Node", containers |-> <<>>]

NoCmd == [name |-> "none", args |-> <<>>]

\* one command has run: its outputs and the navigation state it leaves
Finish(c, res, req, recs, tab, items, sel, app, errs, ok) ==
    /\ pc' = "done"
    /\ cmd' = c
    /\ result' = res
    /\ request' = req
    /\ fetched' = recs
    /\ table' = tab
    /\ emitted' = items
    /\ selection' = sel
    /\ applied' = app
    /\ errors' = errs
    /\ alive' = ok
    /\ UNCHANGED <<namespace, kin, kout>>

Fail(c, res, req) == Finish(c, res, req, <<>>, None, <<>>, selection, <<>>, <<>>, TRUE)

\* run_list_command: fetch, project, filter, sort, reverse, emit, select
run_list_command(kind, c, req) ==
    \/ Fail(c, "TransportError", Some(req))
    \/ \E records \in SeqsUpTo(Records(kind), MaxRecords) :
          LET items == PipelineTable[kind][[c.args EXCEPT !.node = None]][records]
          IN  Finish(c, "Ok", Some(req), records,
                     Some([headers |-> EffectiveColumns(kind, c.args),
                           rows |-> RowsOf(items)]),
                     KObjsOf(items), Many(KObjsOf(items)), <<>>, <<>>, TRUE)

field_sel_selection_first(a, sel) ==
    IF sel.type = "Single" /\ sel.objs[1].typ = "Node"
    THEN Some(<<"spec.nodeName", sel.objs[1].name>>)
    ELSE IF IsSome(a.node) THEN Some(<<"spec.nodeName", Unwrap(a.node)>>)
    ELSE None

field_sel(a, sel) ==
    IF IsSome(a.node) THEN Some(<<"spec.nodeName", Unwrap(a.node)>>)
    ELSE IF sel.type = "Single" /\ sel.objs[1].typ = "Node"
         THEN Some(<<"spec.nodeName", sel.objs[1].name>>)
    ELSE None

PodsRequest(a) ==
    [kind |-> "pods",
     scope |-> namespace,
     label_selector |-> a.label,
     field_selector |-> field_sel(a, selection)]

Pods_dropping_selection_on_error ==
    /\ pc = "ready" /\ alive
    /\ \E a \in PodsArgs :
          LET c == [name |-> "pods", args |-> a] IN
          \/ ~ValidArgs("pods", a) /\ Fail(c, "ConfigError", None)
          \/ /\ ValidArgs("pods", a)
             /\ Finish(c, "RequestError", None, <<>>, None, <<>>, NoSelection,
                       <<>>, <<>>, TRUE)
          \/ ValidArgs("pods", a) /\ run_list_command("pods", c, PodsRequest(a))

Pods ==
    /\ pc = "ready" /\ alive
    /\ \E a \in PodsArgs :
          LET c == [name |-> "pods", args |-> a] IN
          \/ ~ValidArgs("pods", a) /\ Fail(c, "ConfigError", None)
          \/ ValidArgs("pods", a) /\ Fail(c, "RequestError", None)
          \/ ValidArgs("pods", a) /\ run_list_command("pods", c, PodsRequest(a))

VolumesRequest ==
    [kind |-> "persistentvolumes", scope |-> None,
     label_selector |-> None, field_selector |-> None]

PersistentVolumes ==
    /\ pc = "ready" /\ alive
    /\ \E a \in VolumesArgs :
          LET c == [name |-> "persistentvolumes", args |-> a] IN
          \/ ~ValidArgs("persistentvolumes", a) /\ Fail(c, "ConfigError", None)
          \/ ValidArgs("persistentvolumes", a) /\ Fail(c, "RequestError", None)
          \/ ValidArgs("persistentvolumes", a)
             /\ run_list_command("persistentvolumes", c, VolumesRequest)

\* ------------------------------------------------------ apply_to_selection
RangeSpecs ==
    {<<"2", "-", "3">>, <<"1">>, <<"3", ",", "1">>, <<"0">>, <<"4">>, <<"x">>,
     <<"1", ",", "x">>, <<"2", ",", "0">>, <<"1", ",", "4">>, <<"1", "-", "9">>}

IndexOf(s, c) ==
    IF c \in Range(s) THEN CHOOSE i \in 1..Len(s) : s[i] = c /\ \A j \in 1..(i - 1) : s[j] # c
    ELSE 0

\* the comma-separated tokens of a range spec
RECURSIVE Tokens(_)
Tokens(s) ==
    LET i == IndexOf(s, ",") IN
    IF i = 0 THEN <<s>>
    ELSE <<SubSeq(s, 1, i - 1)>> \o Tokens(SubSeq(s, i + 1, Len(s)))

IsNumber(tok) == tok # <<>> /\ \A i \in 1..Len(tok) : tok[i] \in Range(DigitChars)

RECURSIVE ParseNat(_)
ParseNat(tok) ==
    IF tok = <<>> THEN 0
    ELSE 10 * ParseNat(SubSeq(tok, 1, Len(tok) - 1)) + (Code(tok[Len(tok)]) - Code("0"))

\* one token: an index "n" or an inclusive range "lo-hi", both 1-based
ParseToken(tok, K) ==
    LET d == IndexOf(tok, "-")
        lo == IF d = 0 THEN tok ELSE SubSeq(tok, 1, d - 1)
        hi == IF d = 0 THEN tok ELSE SubSeq(tok, d + 1, Len(tok))
    IN  IF IsNumber(lo) /\ IsNumber(hi)
           /\ 1 <= ParseNat(lo) /\ ParseNat(lo) <= ParseNat(hi) /\ ParseNat(hi) <= K
        THEN [ok |-> TRUE,
              idx |-> [i \in 1..(ParseNat(hi) - ParseNat(lo) + 1) |-> ParseNat(lo) + i - 1]]
        ELSE [ok |-> FALSE, idx |-> <<>>]

RECURSIVE ParseTokens(_, _)
ParseTokens(toks, K) ==
    IF toks = <<>> THEN [ok |-> TRUE, idx |-> <<>>]
    ELSE LET h == ParseToken(toks[1], K)
             t == ParseTokens(Tail(toks), K)
         IN  [ok |-> h.ok /\ t.ok, idx |-> h.idx \o t.idx]

\* the whole spec is resolved against a selection of K members before anything runs
ParseRange(rs, K) ==
    LET p == ParseTokens(Tokens(rs), K) IN
    IF p.ok THEN p ELSE [ok |-> FALSE, idx |-> <<>>]

\* the operation is applied member by member; an error is collected and the
\* next member attempted; a panic unwinds through the loop
RECURSIVE RunOps(_, _, _, _)
RunOps(objs, outcomes, done, errs) ==
    IF objs = <<>>
    THEN [result |-> IF errs = <<>> THEN "Ok" ELSE "OperationErrors",
          applied |-> done, errors |-> errs, alive |-> TRUE]
    ELSE IF outcomes[1] = "Panic"
         THEN [result |-> "Panic", applied |-> Append(done, objs[1]),
               errors |-> errs, alive |-> FALSE]
    ELSE RunOps(Tail(objs), Tail(outcomes), Append(done, objs[1]),
                IF outcomes[1] = "Ok" THEN errs
                ELSE Append(errs, [obj |-> objs[1], error |-> outcomes[1]]))

\* op[i] is what the operation comes back with on member i of the selection
apply_to_selection(sel, rs, op) ==
    LET K == Len(sel.objs)
        parsed == IF sel.type = "Many" /\ IsSome(rs) THEN ParseRange(Unwrap(rs), K)
                  ELSE [ok |-> TRUE, idx |-> [i \in 1..K |-> i]]
        objs == [i \in 1..Len(parsed.idx) |-> sel.objs[parsed.idx[i]]]
    IN  IF sel.type = "None"
        THEN [result |-> "NoSelection", applied |-> <<>>, errors |-> <<>>, alive |-> TRUE]
        ELSE IF ~parsed.ok
        THEN [result |-> "ConfigError", applied |-> <<>>, errors |-> <<>>, alive |-> TRUE]
        ELSE RunOps(objs, [i \in 1..Len(objs) |-> op[parsed.idx[i]]], <<>>, <<>>)

\* ------------------------------------------------------------- containers
PodKey(obj) == <<obj.name, obj.namespace>>

\* the pods read_namespaced_pod can be asked for: those with a namespace
ReadablePods ==
    {PodKey(pod_to_kobj(Rec(id))) : id \in {x \in PodRecords : IsSome(Rec(x).namespace)}}

\* what request construction and the context read can come back with
Responses == {"Ok", "RequestError", "ReadFailed", "Other", "NoStatuses"}

print_containers(obj, resp) ==
    IF ~IsSome(obj.namespace) THEN "Panic"
    ELSE CASE resp[PodKey(obj)] = "RequestError" -> "RequestError"
           [] resp[PodKey(obj)] = "ReadFailed" -> "Panic"
           [] resp[PodKey(obj)] = "Other" -> "CommandError: Error getting pod info"
           [] resp[PodKey(obj)] = "NoStatuses" ->
                "CommandError: No container info returned from api server"
           [] resp[PodKey(obj)] = "Ok" -> "Ok"

containers_op(obj, resp) ==
    IF obj.typ = "Pod" THEN print_containers(obj, resp)
    ELSE "CommandError: containers only possible on a Pod"

Containers_ignoring_range ==
    /\ pc = "ready" /\ alive
    /\ \E rs \in RangeSpecs, resp \in [ReadablePods -> Responses] :
          LET op == [i \in 1..Len(selection.objs) |->
                        containers_op(selection.objs[i], resp)]
              r == apply_to_selection(selection, None, op)
          IN  Finish([name |-> "containers", args |-> [range |-> Some(rs)]],
                     r.result, None, <<>>, None, <<>>, selection,
                     r.applied, r.errors, r.alive)

Containers ==
    /\ pc = "ready" /\ alive
    /\ \E rs \in RangeSpecs, resp \in [ReadablePods -> Responses] :
          LET op == [i \in 1..Len(selection.objs) |->
                        containers_op(selection.objs[i], resp)]
              r == apply_to_selection(selection, Some(rs), op)
          IN  Finish([name |-> "containers", args |-> [range |-> Some(rs)]],
                     r.result, None, <<>>, None, <<>>, selection,
                     r.applied, r.errors, r.alive)

\* explicit navigation into one object
Enter ==
    /\ pc = "ready" /\ alive
    /\ \E obj \in Range(selection.objs) \cup {NodeObj} :
          Finish([name |-> "enter", args |-> <<>>], "Ok", None, <<>>, None, <<>>,
                 Single(obj), <<>>, <<>>, TRUE)

\* explicit navigation up
Clear ==
    /\ pc = "ready" /\ alive
    /\ selection.type # "None"
    /\ Finish([name |-> "clear", args |-> <<>>], "Ok", None, <<>>, None, <<>>,
              NoSelection, <<>>, <<>>, TRUE)

\* the shell prints the results and reads the next command
Prompt ==
    /\ pc = "done" /\ alive
    /\ pc' = "ready"
    /\ cmd' = NoCmd
    /\ result' = "Ok"
    /\ request' = None
    /\ fetched' = <<>>
    /\ table' = None
    /\ emitted' = <<>>
    /\ applied' = <<>>
    /\ errors' = <<>>
    /\ UNCHANGED <<namespace, selection, alive, kin, kout>>

Init ==
    /\ namespace \in {None, Some("ns1")}
    /\ selection = NoSelection
    /\ alive = TRUE
    /\ pc = "ready"
    /\ cmd = NoCmd
    /\ result = "Ok"
    /\ request = None
    /\ fetched = <<>>
    /\ table = None
    /\ emitted = <<>>
    /\ applied = <<>>
    /\ errors = <<>>
    /\ kin = None
    /\ kout = None

\* ------------------------------------------------- the conversions alone
KObjNames == {None, Some(<<>>), Some(<<"a">>), Some(<<"a", "b">>), Some(UnknownName)}
KObjNamespaces == {None, Some("ns1")}
KObjSpecs ==
    {None} \cup {Some([containers |-> c]) : c \in {<<>>, <<"c1">>, <<"c1", "c2">>}}

KObjInputs ==
    [kind : {"Pod"}, name : KObjNames, namespace : KObjNamespaces, spec : KObjSpecs]
    \cup [kind : {"PersistentVolume"}, name : KObjNames, namespace : KObjNamespaces,
          spec : {None, Some([containers |-> <<>>])}]

InitKObj ==
    /\ namespace = None
    /\ selection = NoSelection
    /\ alive = TRUE
    /\ pc = "ready"
    /\ cmd = NoCmd
    /\ result = "Ok"
    /\ request = None
    /\ fetched = <<>>
    /\ table = None
    /\ emitted = <<>>
    /\ applied = <<>>
    /\ errors = <<>>
    /\ kin \in {Some(r) : r \in KObjInputs}
    /\ kout = None

PodToKObj ==
    /\ IsSome(kin) /\ kout = None /\ Unwrap(kin).kind = "Pod"
    /\ kout' = Some(pod_to_kobj(Unwrap(kin)))
    /\ UNCHANGED <<namespace, selection, alive, pc, cmd, result, request, fetched,
                   table, emitted, applied, errors, kin>>

PvToKObj ==
    /\ IsSome(kin) /\ kout = None /\ Unwrap(kin).kind = "PersistentVolume"
    /\ kout' = Some(pv_to_kobj(Unwrap(kin)))
    /\ UNCHANGED <<namespace, selection, alive, pc, cmd, result, request, fetched,
                   table, emitted, applied, errors, kin>>

NextKObj == PodToKObj \/ PvToKObj

SpecKObj == InitKObj /\ [][NextKObj]_vars

\* ----------------------------------------------------- pod_status alone
MaxStatuses == 2

Phases ==
    {"Running", "Active", "Pending", "Succeeded", "Failed", "Unknown", "Terminated",
     "Terminating", "ContainerCreating", "Evicted", ""}

ContainerStates ==
    {None} \cup {Some(s) : s \in [running : BOOLEAN, terminated : BOOLEAN, waiting : BOOLEAN]}

ContainerStatuses == [state : ContainerStates]

PodStatuses ==
    {None} \cup {Some(s) : s \in [phase : {None} \cup {Some(p) : p \in Phases},
                                 cstats : {None} \cup {Some(c) : c \in
                                              SeqsUpTo(ContainerStatuses, MaxStatuses)}]}

StatusInputs == [kind : {"Pod"}, deletion : BOOLEAN, status : PodStatuses]

InitPodStatus ==
    /\ namespace = None
    /\ selection = NoSelection
    /\ alive = TRUE
    /\ pc = "ready"
    /\ cmd = NoCmd
    /\ result = "Ok"
    /\ request = None
    /\ fetched = <<>>
    /\ table = None
    /\ emitted = <<>>
    /\ applied = <<>>
    /\ errors = <<>>
    /\ kin \in {Some(r) : r \in StatusInputs}
    /\ kout = None

PodStatus ==
    /\ IsSome(kin) /\ kout = None
    /\ kout' = Some(pod_status(Unwrap(kin)))
    /\ UNCHANGED <<namespace, selection, alive, pc, cmd, result, request, fetched,
                   table, emitted, applied, errors, kin>>

NextPodStatus == PodStatus

SpecPodStatus == InitPodStatus /\ [][NextPodStatus]_vars

Next == Pods \/ PersistentVolumes \/ Containers \/ Enter \/ Clear \/ Prompt

Spec == Init /\ [][Next]_vars

\* ------------------------------------------------------------------ claims
ListNames == {"pods", "persistentvolumes"}
IsList == pc = "done" /\ cmd.name \in ListNames
ListOk == IsList /\ result = "Ok"
Rows == Unwrap(table).rows
Headers == Unwrap(table).headers

\* what the claims expect of one record, read off the record itself
RecName(id) == IF IsSome(Rec(id).name) THEN Unwrap(Rec(id).name) ELSE UnknownName
RecContainers(id) ==
    IF Rec(id).kind = "Pod" /\ IsSome(Rec(id).spec) THEN Unwrap(Rec(id).spec).containers
    ELSE <<>>
ExpectedKObj(id) ==
    [name |-> RecName(id), namespace |-> Rec(id).namespace, typ |-> Rec(id).kind,
     containers |-> RecContainers(id)]

\* the fetch positions whose name matches the filter
Kept ==
    IF IsSome(cmd.args.regex)
    THEN {i \in 1..Len(fetched) : Contains(RecName(fetched[i]), Unwrap(cmd.args.regex))}
    ELSE 1..Len(fetched)

\* fetch position p is listed before fetch position q (reverse aside)
Precedes(p, q) ==
    CASE cmd.args.sort = None -> p < q
      [] cmd.args.sort = Some("name") ->
            \/ StrLess(RecName(fetched[p]), RecName(fetched[q]))
            \/ RecName(fetched[p]) = RecName(fetched[q]) /\ p < q
      [] cmd.args.sort = Some("age") ->
            \/ Rec(fetched[p]).creation > Rec(fetched[q]).creation
            \/ Rec(fetched[p]).creation = Rec(fetched[q]).creation /\ p < q

PosOf(p) ==
    LET r == Cardinality({q \in Kept : Precedes(q, p)}) + 1
    IN  IF cmd.args.reverse THEN Cardinality(Kept) + 1 - r ELSE r

InExpectedOrder ==
    /\ Len(emitted) = Cardinality(Kept)
    /\ Len(Rows) = Cardinality(Kept)
    /\ \A p \in Kept :
          /\ emitted[PosOf(p)] = ExpectedKObj(fetched[p])
          /\ Rows[PosOf(p)][1].text = RecName(fetched[p])

AgeColumn == CHOOSE i \in 1..Len(Headers) : Headers[i] = "Age"

\* C1: a list command with no filter, no sort and no reverse emits one row per
\* fetched record, row i and KObj i derived from record i, and hands the KObjs
\* to the environment in that order.
C1_UnfilteredListKeepsFetchOrder ==
    (ListOk /\ cmd.args.regex = None /\ cmd.args.sort = None /\ ~cmd.args.reverse)
    => /\ Len(Rows) = Len(fetched)
       /\ Len(emitted) = Len(fetched)
       /\ \A i \in 1..Len(fetched) :
             /\ emitted[i] = ExpectedKObj(fetched[i])
             /\ Rows[i][1].text = RecName(fetched[i])
             /\ Rows[i][AgeColumn].text = Digits(Now - Rec(fetched[i]).creation) \o <<"m">>
       /\ Headers[1] = "Name"
       /\ selection = Many(emitted)

C1_Witness ==
    /\ ListOk /\ cmd.args.regex = None /\ cmd.args.sort = None /\ ~cmd.args.reverse
    /\ fetched = <<"PodC", "PodA", "PodB">>
    /\ Len(Rows) = 3

\* C2: with a name filter that M of the N names match, exactly those M rows are
\* emitted, each Name cell matches, the order is the one sort and reverse give
\* to the matching rows alone, and filtering the output again changes nothing.
C2_FilterKeepsExactlyMatches ==
    (ListOk /\ IsSome(cmd.args.regex))
    => /\ InExpectedOrder
       /\ \A i \in 1..Len(Rows) : Contains(Rows[i][1].text, Unwrap(cmd.args.regex))
       /\ LET matches(row) == Contains(row[1].text, Unwrap(cmd.args.regex))
          IN  SelectSeq(Rows, matches) = Rows

C2_Witness ==
    /\ ListOk /\ cmd.args.regex = Some(<<"n">>) /\ cmd.args.sort = Some("name")
    /\ Len(fetched) = 3 /\ Cardinality(Kept) = 1
    /\ Len(Rows) = 1 /\ Rows[1][1].text = UnknownName

\* C3: sorted by Name, the rows are in ascending name order with equal names in
\* fetch order; with reverse they are in exactly the reversed order, equal
\* names included.
C3_NameSortStableAndReversed ==
    (ListOk /\ cmd.args.sort = Some("name")) => InExpectedOrder

C3_Witness ==
    /\ ListOk /\ cmd.name = "pods" /\ cmd.args.sort = Some("name") /\ cmd.args.reverse
    /\ cmd.args.regex = None
    /\ fetched = <<"PodA", "PodC", "PodB">>
    /\ emitted = <<ExpectedKObj("PodB"), ExpectedKObj("PodA"), ExpectedKObj("PodC")>>

\* C4: a sort by "age" is accepted and orders the rows by creation timestamp
\* (younger first, equal timestamps in fetch order), never by the text of the
\* Age cell.
C4_AgeSortByTimestamp ==
    /\ (ListOk /\ cmd.args.sort = Some("age")) => InExpectedOrder
    /\ (IsList /\ cmd.args.sort = Some("age") /\ cmd.args.show = {})
       => result # "ConfigError"

C4_Witness ==
    /\ ListOk /\ cmd.args.sort = Some("age") /\ ~cmd.args.reverse
    /\ \E i \in 1..(Len(Rows) - 1) :
          /\ Rows[i][AgeColumn].text = <<"9", "m">>
          /\ Rows[i + 1][AgeColumn].text = <<"1", "0", "m">>
          /\ StrLess(Rows[i + 1][AgeColumn].text, Rows[i][AgeColumn].text)

ContainersDone == pc = "done" /\ cmd.name = "containers"

\* C5: containers applies the operation to exactly the designated members in
\* selection order: members 2 and 3 for a Many selection and "2-3", the one
\* object for a Single selection.
C5_AppliedToExactlyTheDesignated ==
    ContainersDone
    => /\ (selection.type = "Many" /\ Len(selection.objs) >= 3
           /\ cmd.args.range = Some(<<"2", "-", "3">>))
          => applied = <<selection.objs[2], selection.objs[3]>>
       /\ selection.type = "Single" => applied = selection.objs

\* a range spec names an index outside 1..K or holds a non-numeric character
\* (indices of one digit; K is below 10)
BadRange(rs, K) ==
    \E i \in 1..Len(rs) :
        \/ rs[i] \notin Range(DigitChars) \cup {",", "-"}
        \/ rs[i] = "0"
        \/ rs[i] \in Range(DigitChars) /\ Code(rs[i]) - Code("0") > K

\* C6: with a Many selection a malformed range spec is rejected with ConfigError
\* before the operation is applied to any member, and the selection stays.
C6_MalformedRangeRejectedFirst ==
    [][(/\ pc = "ready" /\ pc' = "done" /\ cmd'.name = "containers"
        /\ selection.type = "Many"
        /\ BadRange(Unwrap(cmd'.args.range), Len(selection.objs)))
       => (/\ result' = "ConfigError"
           /\ applied' = <<>>
           /\ errors' = <<>>
           /\ selection' = selection
           /\ alive')]_vars

C6_Witness ==
    /\ ContainersDone /\ selection.type = "Many" /\ Len(selection.objs) = 3
    /\ cmd.args.range = Some(<<"1", ",", "4">>)
    /\ result = "ConfigError" /\ applied = <<>>

\* C7: when the operation fails on a member of a Many selection it is still
\* attempted on every remaining designated member, and the failures are
\* reported together after the last one.
C7_FailuresDoNotStopTheRest ==
    (ContainersDone /\ selection.type = "Many"
     /\ ParseRange(Unwrap(cmd.args.range), Len(selection.objs)).ok)
    => LET idx == ParseRange(Unwrap(cmd.args.range), Len(selection.objs)).idx
       IN  /\ Len(applied) = Len(idx)
           /\ \A i \in 1..Len(idx) : applied[i] = selection.objs[idx[i]]
           /\ \A i \in 1..Len(idx) :
                 selection.objs[idx[i]].typ # "Pod"
                 => \E j \in 1..Len(errors) : errors[j].obj = selection.objs[idx[i]]

PodsShowFlags ==
    {"ip", "labels", "lastrestart", "namespace", "node", "nominatednode", "readinessgates"}
PodsSortFlags == {"name", "ready", "status", "restarts", "age"} \cup PodsShowFlags
VolumesShowFlags == {"labels", "volumemode"}
VolumesSortFlags ==
    {"name", "age", "capacity", "accessmodes", "replacepolicy", "status", "cliam",
     "storageclass", "reason"} \cup VolumesShowFlags

\* the command c names a show or sort column that has no descriptor
NamesUnknownColumn(c) ==
    \/ ~(c.args.show \subseteq (IF c.name = "pods" THEN PodsShowFlags ELSE VolumesShowFlags))
    \/ /\ IsSome(c.args.sort)
       /\ Unwrap(c.args.sort) \notin
            (IF c.name = "pods" THEN PodsSortFlags ELSE VolumesSortFlags)

\* the command c names a column that has a descriptor but no extractor, Name and
\* Age (derived from the KObj and the metadata) aside
NamesColumnWithoutExtractor(c) ==
    LET named == c.args.show \cup (IF IsSome(c.args.sort) THEN {Unwrap(c.args.sort)} ELSE {})
    IN  \E f \in named :
          /\ f \in (IF c.name = "pods" THEN PodsSortFlags ELSE VolumesSortFlags)
          /\ DisplayName(c.name, f) \notin {"Name", "Age"}
          /\ DisplayName(c.name, f) \notin
                (IF c.name = "pods" THEN POD_EXTRACTORS ELSE PV_EXTRACTORS)

\* C8 as stated: a show or sort column with no descriptor, or with no extractor,
\* is rejected with ConfigError and nothing is emitted.
C8_NoDescriptorOrNoExtractorRejected ==
    (IsList /\ (NamesUnknownColumn(cmd) \/ NamesColumnWithoutExtractor(cmd)))
    => (result = "ConfigError" /\ table = None /\ emitted = <<>>)

\* C8 amended: a show or sort column with no descriptor in the lists the command
\* hands to show_arg / sort_arg is rejected with ConfigError, with no header, no
\* row and the selection unchanged; a column that has a descriptor is accepted
\* whether or not the registry has an extractor for it.
C8_NoDescriptorRejected ==
    [][(pc = "ready" /\ pc' = "done" /\ cmd'.name \in ListNames)
       => /\ NamesUnknownColumn(cmd')
             => (/\ result' = "ConfigError" /\ table' = None /\ emitted' = <<>>
                 /\ selection' = selection)
          /\ ~NamesUnknownColumn(cmd') => result' # "ConfigError"]_vars

C8_Witness ==
    /\ IsList /\ cmd.args.show = {"bogus"} /\ result = "ConfigError"
    /\ table = None
    /\ selection.type = "Many" /\ Len(selection.objs) = 2

\* C9: the selection changes only at a successful list command (to Many of the
\* emitted KObjs), at enter (to Single) or at clear (to None); a list command
\* whose request construction or fetch fails emits nothing and leaves selection
\* and namespace as they were.
C9_SelectionChangesOnlyAtNavigation ==
    [][/\ selection' # selection
          => /\ pc = "ready" /\ pc' = "done"
             /\ \/ cmd'.name \in ListNames /\ result' = "Ok"
                \/ cmd'.name = "enter" /\ selection'.type = "Single"
                \/ cmd'.name = "clear" /\ selection' = NoSelection
       /\ (pc = "ready" /\ pc' = "done" /\ cmd'.name \in ListNames /\ result' = "Ok")
          => selection' = Many(emitted')
       /\ (pc = "ready" /\ pc' = "done" /\ cmd'.name \in ListNames
           /\ result' \in {"RequestError", "TransportError"})
          => (/\ table' = None /\ emitted' = <<>>
              /\ selection' = selection /\ namespace' = namespace)]_vars

C9_Witness ==
    /\ IsList /\ cmd.name = "pods" /\ result = "RequestError"
    /\ table = None
    /\ selection.type = "Many" /\ Len(selection.objs) = 3

\* C10: every KObj pod_to_kobj or pv_to_kobj returns has a non-empty name, the
\* record's name or the sentinel; the namespace is copied; a pod's KObj carries
\* its spec's container names in order.
C10_KObjNameNonEmpty ==
    IsSome(kout)
    => LET rec == Unwrap(kin)
           obj == Unwrap(kout)
       IN  /\ obj.name # <<>>
           /\ obj.name = (IF IsSome(rec.name) THEN Unwrap(rec.name) ELSE UnknownName)
           /\ obj.namespace = rec.namespace
           /\ obj.containers =
                (IF rec.kind = "Pod" /\ IsSome(rec.spec)
                 THEN Unwrap(rec.spec).containers ELSE <<>>)

\* C11: no command aborts the process: containers and the list commands end in
\* success or in a reported error, and the shell goes on to the next command;
\* a Pod KObj without a namespace or a failed context read gives a reported
\* error.
C11_NoCommandAborts ==
    (pc = "done" /\ cmd.name \in ListNames \cup {"containers"})
    => (alive /\ result # "Panic" /\ ENABLED Prompt)

LowerChars ==
    {"a", "b", "c", "d", "e", "f", "g", "h", "i", "j", "k", "l", "m", "n", "o", "p",
     "q", "r", "s", "t", "u", "v", "w", "x", "y", "z"}

AllColumns(kind) == COL_MAP(kind) \o EXTRA_COL_MAP(kind)

\* flags are lowercase and unique across the base and extra lists
FlagsLowercaseUnique(kind) ==
    LET all == AllColumns(kind) IN
    /\ \A i \in 1..Len(all) : Range(FlagText(all[i][1])) \subseteq LowerChars
    /\ \A i, j \in 1..Len(all) : all[i][1] = all[j][1] => i = j

\* every base column but Name and Age has an extractor
BaseColumnsRegistered(kind) ==
    \A i \in 1..Len(COL_MAP(kind)) :
        COL_MAP(kind)[i][2] \in {"Name", "Age"} \cup EXTRACTORS(kind)

\* every registry key is the display name of a base or extra column
RegistryKeysAreColumns(kind) ==
    \A key \in EXTRACTORS(kind) :
        \E i \in 1..Len(AllColumns(kind)) : AllColumns(kind)[i][2] = key

\* the extra columns of a kind that the registry has no extractor for
UnregisteredExtras(kind) ==
    {EXTRA_COL_MAP(kind)[i][2] : i \in 1..Len(EXTRA_COL_MAP(kind))} \ EXTRACTORS(kind)

\* C12 as stated: for each kind the flags are lowercase and unique, every
\* extra column is a registry key, every base column but Name and Age is one,
\* and every registry key is a column.
C12_TablesAndRegistryAgree ==
    IsList
    => \A kind \in ListNames :
          /\ FlagsLowercaseUnique(kind)
          /\ UnregisteredExtras(kind) = {}
          /\ BaseColumnsRegistered(kind)
          /\ RegistryKeysAreColumns(kind)

\* C12 amended: as stated, but for the extra columns Labels and Namespace,
\* which have a descriptor and no extractor; every column a listing shows is
\* Name, Age, Labels, Namespace or a registry key.
C12_TablesAndRegistryAgreeButLabelsNamespace ==
    /\ \A kind \in ListNames :
          /\ FlagsLowercaseUnique(kind)
          /\ UnregisteredExtras(kind) \subseteq {"Labels", "Namespace"}
          /\ BaseColumnsRegistered(kind)
          /\ RegistryKeysAreColumns(kind)
    /\ ListOk => Range(Headers) \subseteq
                    {"Name", "Age", "Labels", "Namespace"} \cup EXTRACTORS(cmd.name)

C12_Witness ==
    /\ ListOk /\ cmd.name = "pods" /\ cmd.args.show = {"labels"}
    /\ \E i \in 1..Len(Headers) : Headers[i] = "Labels"
    /\ "Labels" \in UnregisteredExtras("pods")
    /\ Len(Rows) = 2

\* a pods command has built its request in this step
PodsRequested == pc = "ready" /\ pc' = "done" /\ cmd'.name = "pods" /\ IsSome(request')

\* C13: the pods request's field selector is spec.nodeName=<--node value> when
\* --node is given, whatever the selection; otherwise spec.nodeName=<name of
\* the selected node> when the selection is Single and a Node; otherwise none.
\* Its scope is the current namespace when set, all namespaces otherwise.
C13_NodeFilterPrecedence ==
    [][PodsRequested
       => LET req == Unwrap(request')
              node == cmd'.args.node
              onNode == selection.type = "Single" /\ selection.objs[1].typ = "Node"
          IN  /\ IsSome(node)
                 => req.field_selector = Some(<<"spec.nodeName", Unwrap(node)>>)
              /\ (~IsSome(node) /\ onNode)
                 => req.field_selector = Some(<<"spec.nodeName", selection.objs[1].name>>)
              /\ (~IsSome(node) /\ ~onNode) => req.field_selector = None
              /\ req.scope = namespace
              /\ namespace' = namespace]_vars

\* --node n2 while node n1 is selected: the fetch (which then fails, so the
\* selection is still the node) was restricted to n2
C13_Witness ==
    /\ IsList /\ cmd.name = "pods" /\ result = "TransportError"
    /\ selection = Single(NodeObj)
    /\ cmd.args.node = Some(<<"n", "2">>)
    /\ request # None
    /\ Unwrap(request).field_selector = Some(<<"spec.nodeName", <<"n", "2">>>>)
    /\ Unwrap(request).scope = Some("ns1")

\* some container status of the pod has a state that is waiting or has none of
\* running, terminated and waiting set; a status without a state does not count
SomeContainerWaits(pod) ==
    /\ pod.status # None
    /\ Unwrap(pod.status).cstats # None
    /\ \E cs \in Range(Unwrap(Unwrap(pod.status).cstats)) :
          /\ cs.state # None
          /\ \/ Unwrap(cs.state).waiting
             \/ ~(Unwrap(cs.state).running \/ Unwrap(cs.state).terminated
                  \/ Unwrap(cs.state).waiting)

PodPhase(pod) ==
    IF pod.status # None THEN Unwrap(pod.status).phase ELSE None

\* C14: pod_status always returns a cell; its text is "Terminating" for a pod
\* with a deletion timestamp, else "ContainerCreating" when some container
\* waits, else the phase, else "Unknown"; its foreground is Success for
\* Running/Active, Warn for Pending/ContainerCreating, Info for Succeeded and
\* Danger for every other text.
C14_PodStatusPrecedenceAndColour ==
    kout # None
    => LET pod == Unwrap(kin)
           out == Unwrap(kout)
           cell == Unwrap(out)
       IN  /\ out # None
           /\ pod.deletion => cell.text = Word("Terminating")
           /\ (~pod.deletion /\ SomeContainerWaits(pod))
              => cell.text = Word("ContainerCreating")
           /\ (~pod.deletion /\ ~SomeContainerWaits(pod) /\ PodPhase(pod) # None)
              => cell.text = Word(Unwrap(PodPhase(pod)))
           /\ (~pod.deletion /\ ~SomeContainerWaits(pod) /\ PodPhase(pod) = None)
              => cell.text = Word("Unknown")
           /\ cell.text \in {Word("Running"), Word("Active")} => cell.fg = Some("Success")
           /\ cell.text \in {Word("Pending"), Word("ContainerCreating")}
              => cell.fg = Some("Warn")
           /\ cell.text = Word("Succeeded") => cell.fg = Some("Info")
           /\ cell.text \notin {Word("Running"), Word("Active"), Word("Pending"),
                                Word("ContainerCreating"), Word("Succeeded")}
              => cell.fg = Some("Danger")

\* a running pod with one status without a state and one whose state has
\* nothing set: the second counts as waiting
C14_Witness ==
    /\ kout # None
    /\ kin = Some([kind |-> "Pod", deletion |-> FALSE,
                   status |-> Some([phase |-> Some("Running"),
                                    cstats |-> Some(<<[state |-> None],
                                                      [state |-> Some([running |-> FALSE,
                                                                       terminated |-> FALSE,
                                                                       waiting |-> FALSE])]>>)])])
    /\ Unwrap(kout) = Some([text |-> Word("ContainerCreating"), fg |-> Some("Warn")])

====
